---- MODULE Spec2Model ----
(***************************************************************************)
(* A model of the time tracker of src/src/main.rs.                         *)
(*                                                                         *)
(* One invocation of the program is: load the store from the file, run     *)
(* one command handler on it, write the store back.  The handlers are      *)
(* operators from a store (and the command's argument and the reading of   *)
(* the system clock) to the store they leave and the result they return.   *)
(*                                                                         *)
(* Option<T> is a sequence of length <= 1: None is <<>>, Some(v) is <<v>>. *)
(* A String that the program inspects (a description, a duration text) is  *)
(* a sequence of one-character strings; a project name is only ever a key  *)
(* and is a TLA+ string.  A Duration is a number of nanoseconds.           *)
(***************************************************************************)
EXTENDS Integers, Sequences, FiniteSets, TLC

\* ------------------------------------------------------------------ bounds

\* `off` is explored while the store holds fewer than MaxEntries entries.
MaxEntries == 2

\* The width of u64 in the model: `as u64` wraps modulo 2^NanoBits.  (The
\* program's width is 64; TLC's integers have 32 bits.)
NanoBits == 12

\* Each of the concurrent processes is started at most MaxRuns times.
MaxRuns == 1

\* ------------------------------------------------------------------ inputs

\* Project names given on the command line.
Names == {"p", "q"}

\* The joined description arguments of `off`.
Descriptions == {<<>>, <<" ">>, <<" ", "a", " ">>}

\* The joined duration arguments of `edit`.
DurationTexts ==
    {<<"1", " ", "n", "s">>, <<"-", "1", "n", "s">>, <<"1">>, <<>>}

\* The times since UNIX_EPOCH, in nanoseconds, that the system clock shows:
\* two readings give an earlier, an equal and a later one.
Readings == {0, 1}

None == <<>>

Some(v) == <<v>>

\* SystemTime::now().duration_since(UNIX_EPOCH): Err when the system clock is
\* before the epoch, else the time since the epoch.  The system clock is not
\* monotonic: a later reading may be smaller than an earlier one.
Clock == {None} \cup {Some(t) : t \in Readings}

\* ------------------------------------------------------------------ data

\* Project::default()
DefaultProject == [start_epoch |-> None, logged_times |-> <<>>]

\* ProjectList::default()
DefaultList == [projects |-> [n \in {} |-> DefaultProject], active_project |-> None]

\* HashMap::contains_key
contains_key(projects, name) == name \in DOMAIN projects

\* HashMap::insert
insert(projects, name, project) ==
    [n \in DOMAIN projects \cup {name} |-> IF n = name THEN project ELSE projects[n]]

\* HashMap::remove
remove(projects, name) == [n \in DOMAIN projects \ {name} |-> projects[n]]

\* char::is_whitespace, on the characters of the inputs
is_whitespace(c) == c \in {" ", "\t", "\n"}

RECURSIVE trim_start(_)
\* str::trim_start
trim_start(s) ==
    IF s # <<>> /\ is_whitespace(Head(s)) THEN trim_start(Tail(s)) ELSE s

RECURSIVE trim_end(_)
\* str::trim_end
trim_end(s) ==
    IF s # <<>> /\ is_whitespace(s[Len(s)])
    THEN trim_end(SubSeq(s, 1, Len(s) - 1))
    ELSE s

\* str::trim
\* Variant of trim that strips nothing.
trim_nothing(s) == s

trim(s) == trim_end(trim_start(s))

RECURSIVE replace_spaces(_)
\* duration.replace(' ', "")
replace_spaces(s) ==
    IF s = <<>> THEN <<>>
    ELSE IF Head(s) = " " THEN replace_spaces(Tail(s))
    ELSE <<Head(s)>> \o replace_spaces(Tail(s))

\* ------------------------------------------------- go_parse_duration crate

\* The value of a decimal digit, -1 for any other character.
digit(c) ==
    CASE c = "0" -> 0 [] c = "1" -> 1 [] c = "2" -> 2 [] c = "3" -> 3
      [] c = "4" -> 4 [] c = "5" -> 5 [] c = "6" -> 6 [] c = "7" -> 7
      [] c = "8" -> 8 [] c = "9" -> 9 [] OTHER -> -1

RECURSIVE leading_int(_, _)
\* leading_int: consumes [0-9]* from s; <<value, rest>>.
leading_int(s, v) ==
    IF s # <<>> /\ digit(Head(s)) >= 0
    THEN leading_int(Tail(s), v * 10 + digit(Head(s)))
    ELSE <<v, s>>

RECURSIVE unit_len(_)
\* The length of the unit: the characters up to the next digit.
unit_len(s) ==
    IF s = <<>> \/ digit(Head(s)) >= 0 THEN 0 ELSE 1 + unit_len(Tail(s))

\* The unit table, in nanoseconds; None for an unknown unit.  ("m" and "h"
\* exceed TLC's integers and appear in no input of the model.)
unit_nanos(u) ==
    CASE u = <<"n", "s">> -> Some(1)
      [] u = <<"u", "s">> -> Some(1000)
      [] u = <<"m", "s">> -> Some(1000000)
      [] u = <<"s">> -> Some(1000000000)
      [] OTHER -> None

RECURSIVE parse_terms(_, _)
\* The loop of parse_duration over ([0-9]*[a-z]+)+ ; None is Err.  The
\* inputs of the model hold no fractional part.
parse_terms(s, d) ==
    IF s = <<>> THEN Some(d)
    ELSE IF digit(Head(s)) < 0 THEN None
    ELSE LET li == leading_int(s, 0)
             i == unit_len(li[2])
             unit == unit_nanos(SubSeq(li[2], 1, i))
         IN IF i = 0 \/ unit = None THEN None
            ELSE parse_terms(SubSeq(li[2], i + 1, Len(li[2])), d + li[1] * unit[1])

\* go_parse_duration::parse_duration: Ok(nanoseconds as i64) is Some(n), Err
\* is None.
parse_duration(string) ==
    LET neg == string # <<>> /\ Head(string) = "-"
        s == IF string # <<>> /\ Head(string) \in {"-", "+"} THEN Tail(string) ELSE string
    IN IF s = <<"0">> THEN Some(0)
       ELSE IF s = <<>> THEN None
       ELSE LET d == parse_terms(s, 0)
            IN IF d = None THEN None
               ELSE IF neg THEN Some(0 - d[1]) ELSE d

\* `as u64` on an i64: the value modulo the width of u64.
as_u64(n) == n % (2 ^ NanoBits)

\* Duration::from_nanos
from_nanos(n) == n

\* ---------------------------------------------------------------- handlers

\* What a handler leaves: the store, the Result it returns ("Ok", the name
\* of the Error variant, or "Panic" when it unwinds instead of returning),
\* and the clock reading it obtained (None when it read none).
Ret(l, res, t) == [list |-> l, res |-> res, t |-> t]

\* The sum of the lengths of all projects' logged_times.
RECURSIVE total_entries(_, _)
total_entries(projects, names) ==
    IF names = {} THEN 0
    ELSE LET n == CHOOSE x \in names : TRUE
         IN Len(projects[n].logged_times) + total_entries(projects, names \ {n})

\* project.start_epoch = Some(now)
set_start_epoch(project, now) == [project EXCEPT !.start_epoch = Some(now)]

\* Variant of handle_on without the AlreadyStarted check: a running timer is
\* started again.
handle_on_restarts(l, now) ==
    IF l.active_project = None THEN Ret(l, "NoActiveProject", None)
    ELSE LET active == l.active_project[1] IN
    IF ~contains_key(l.projects, active) THEN Ret(l, "UnknownActiveProject", None)
    ELSE IF now = None THEN Ret(l, "SystemTime", None)
    ELSE Ret([l EXCEPT !.projects[active].start_epoch = now], "Ok", now)

\* Variant of handle_on that creates the active project it does not find.
handle_on_creates(l, now) ==
    IF l.active_project = None THEN Ret(l, "NoActiveProject", None)
    ELSE LET active == l.active_project[1]
             project == IF contains_key(l.projects, active)
                        THEN l.projects[active]
                        ELSE DefaultProject
         IN
    IF project.start_epoch # None THEN Ret(l, "AlreadyStarted", None)
    ELSE IF now = None THEN Ret(l, "SystemTime", None)
    ELSE Ret([l EXCEPT !.projects =
                 insert(l.projects, active, set_start_epoch(project, now[1]))],
             "Ok", now)

\* handle_on
handle_on(l, now) ==
    IF l.active_project = None THEN Ret(l, "NoActiveProject", None)
    ELSE LET active == l.active_project[1] IN
    IF ~contains_key(l.projects, active) THEN Ret(l, "UnknownActiveProject", None)
    ELSE LET project == l.projects[active] IN
    IF project.start_epoch # None THEN Ret(l, "AlreadyStarted", None)
    ELSE IF now = None THEN Ret(l, "SystemTime", None)
    ELSE Ret([l EXCEPT !.projects[active] = set_start_epoch(project, now[1])],
             "Ok", now)

\* Option::take on project.start_epoch: the project it leaves
take_start_epoch(project) == [project EXCEPT !.start_epoch = None]

\* Variant of push_logged_time that inserts at the front.
push_front_logged_time(project, start_epoch, duration, description) ==
    [project EXCEPT !.logged_times =
        <<[start_epoch |-> start_epoch, duration |-> duration,
           description |-> description]>> \o @]

\* project.logged_times.push(LoggedTime { start_epoch, duration, description })
push_logged_time(project, start_epoch, duration, description) ==
    [project EXCEPT !.logged_times =
        Append(@, [start_epoch |-> start_epoch, duration |-> duration,
                   description |-> description])]

\* Variant of handle_off that takes start_epoch before it looks at the
\* description.
handle_off_checks_timer_first(l, description, now) ==
    IF l.active_project = None THEN Ret(l, "NoActiveProject", None)
    ELSE LET active == l.active_project[1] IN
    IF ~contains_key(l.projects, active) THEN Ret(l, "UnknownActiveProject", None)
    ELSE LET project == l.projects[active]
             start_epoch == project.start_epoch
             taken == take_start_epoch(project)
         IN
    IF start_epoch = None THEN Ret(l, "NotStarted", None)
    ELSE IF trim(description) = <<>>
         THEN Ret([l EXCEPT !.projects[active] = taken], "NoDescription", None)
    ELSE IF now = None
         THEN Ret([l EXCEPT !.projects[active] = taken], "SystemTime", None)
    ELSE IF now[1] < start_epoch[1]
         THEN Ret([l EXCEPT !.projects[active] = taken], "Panic", now)
    ELSE Ret([l EXCEPT !.projects[active] =
                 push_logged_time(taken, start_epoch[1], now[1] - start_epoch[1],
                                  trim(description))],
             "Ok", now)

\* handle_off.  `now - start_epoch` on Durations panics when now < start_epoch.
handle_off(l, description, now) ==
    IF l.active_project = None THEN Ret(l, "NoActiveProject", None)
    ELSE LET active == l.active_project[1] IN
    IF ~contains_key(l.projects, active) THEN Ret(l, "UnknownActiveProject", None)
    ELSE LET project == l.projects[active] IN
    IF trim(description) = <<>> THEN Ret(l, "NoDescription", None)
    ELSE LET start_epoch == project.start_epoch
             taken == take_start_epoch(project)
         IN
    IF start_epoch = None THEN Ret(l, "NotStarted", None)
    ELSE IF now = None
         THEN Ret([l EXCEPT !.projects[active] = taken], "SystemTime", None)
    ELSE IF now[1] < start_epoch[1]
         THEN Ret([l EXCEPT !.projects[active] = taken], "Panic", now)
    ELSE Ret([l EXCEPT !.projects[active] =
                 push_logged_time(taken, start_epoch[1], now[1] - start_epoch[1],
                                  trim(description))],
             "Ok", now)

\* Variant of set_last_duration that writes the first element.
set_first_duration(project, duration) ==
    [project EXCEPT !.logged_times[1].duration = duration]

\* time.duration = duration, on the last element of logged_times
set_last_duration(project, duration) ==
    [project EXCEPT !.logged_times[Len(project.logged_times)].duration = duration]

\* Variant of handle_edit that parses with a default: a malformed text
\* stores a zero duration before the error is returned.
handle_edit_stores_default(l, duration) ==
    IF l.active_project = None THEN Ret(l, "NoActiveProject", None)
    ELSE LET active == l.active_project[1] IN
    IF ~contains_key(l.projects, active) THEN Ret(l, "UnknownActiveProject", None)
    ELSE LET project == l.projects[active] IN
    IF project.logged_times = <<>> THEN Ret(l, "NoTimeLogged", None)
    ELSE LET parsed == parse_duration(replace_spaces(duration)) IN
    IF parsed = None
    THEN Ret([l EXCEPT !.projects[active] = set_last_duration(project, 0)],
             "ParseDuration", None)
    ELSE Ret([l EXCEPT !.projects[active] =
                 set_last_duration(project, from_nanos(as_u64(parsed[1])))],
             "Ok", None)

\* handle_edit
handle_edit(l, duration) ==
    IF l.active_project = None THEN Ret(l, "NoActiveProject", None)
    ELSE LET active == l.active_project[1] IN
    IF ~contains_key(l.projects, active) THEN Ret(l, "UnknownActiveProject", None)
    ELSE LET project == l.projects[active] IN
    IF project.logged_times = <<>> THEN Ret(l, "NoTimeLogged", None)
    ELSE LET parsed == parse_duration(replace_spaces(duration)) IN
    IF parsed = None THEN Ret(l, "ParseDuration", None)
    ELSE Ret([l EXCEPT !.projects[active] =
                 set_last_duration(project, from_nanos(as_u64(parsed[1])))],
             "Ok", None)

\* project.start_epoch = None
clear_start_epoch(project) == [project EXCEPT !.start_epoch = None]

\* Variant of pop_logged_time that removes the first element.
pop_first_logged_time(project) == [project EXCEPT !.logged_times = Tail(@)]

\* project.logged_times.pop(): the project it leaves
pop_logged_time(project) ==
    [project EXCEPT !.logged_times = SubSeq(@, 1, Len(@) - 1)]

\* handle_undo.  `now - start` on Durations panics when now < start.
handle_undo(l, now) ==
    IF l.active_project = None THEN Ret(l, "NoActiveProject", None)
    ELSE LET active == l.active_project[1] IN
    IF ~contains_key(l.projects, active) THEN Ret(l, "UnknownActiveProject", None)
    ELSE LET project == l.projects[active] IN
    IF project.start_epoch # None
    THEN IF now = None THEN Ret(l, "SystemTime", None)
         ELSE IF now[1] < project.start_epoch[1] THEN Ret(l, "Panic", now)
         ELSE Ret([l EXCEPT !.projects[active] = clear_start_epoch(project)],
                  "Ok", now)
    ELSE IF project.logged_times = <<>> THEN Ret(l, "NoTimeLogged", None)
    ELSE Ret([l EXCEPT !.projects[active] = pop_logged_time(project)], "Ok", None)

\* Variant of fold_durations whose closure drops the accumulator: the
\* duration of the last entry.
fold_durations_forgets_acc(logged_times) ==
    IF logged_times = <<>> THEN 0 ELSE logged_times[Len(logged_times)].duration

RECURSIVE fold_durations(_)
\* logged_times.iter().fold(Duration::default(), |acc, time| acc + time.duration)
fold_durations(logged_times) ==
    IF logged_times = <<>> THEN 0
    ELSE logged_times[1].duration + fold_durations(Tail(logged_times))

\* handle_list: reads only; the total it prints for each project.
list_totals(l) == [n \in DOMAIN l.projects |-> fold_durations(l.projects[n].logged_times)]

\* handle_list
handle_list(l) == Ret(l, "Ok", None)

\* handle_time: reads only; the total it prints is
\* fold_durations(project.logged_times).
handle_time(l) ==
    IF l.active_project = None THEN Ret(l, "NoActiveProject", None)
    ELSE IF ~contains_key(l.projects, l.active_project[1])
         THEN Ret(l, "UnknownActiveProject", None)
    ELSE Ret(l, "Ok", None)

\* Variant of handle_new without the ProjectExists check: an existing
\* project is replaced by an empty one.
handle_new_replaces(l, name) ==
    Ret([projects |-> insert(l.projects, name, DefaultProject),
         active_project |-> Some(name)],
        "Ok", None)

RECURSIVE fold_total_duration(_, _)
\* handle_time's fold, lines 340-343: the accumulator over the entries left.
fold_total_duration(acc, logged_times) ==
    IF logged_times = <<>> THEN acc
    ELSE fold_total_duration(acc + Head(logged_times).duration, Tail(logged_times))

\* handle_time: total_duration of the active project.
time_total(l) == fold_total_duration(0, l.projects[l.active_project[1]].logged_times)

\* The totals a command prints, None when it prints none: handle_list prints
\* one for every project unless there are no projects, handle_time prints
\* the active project's unless it fails or the project has no entries.
printed(op, l) ==
    IF op = "list"
    THEN IF DOMAIN l.projects = {} THEN None ELSE Some(list_totals(l))
    ELSE IF /\ op = "time"
            /\ handle_time(l).res = "Ok"
            /\ l.projects[l.active_project[1]].logged_times # <<>>
    THEN Some(time_total(l))
    ELSE None

\* handle_new
handle_new(l, name) ==
    IF contains_key(l.projects, name) THEN Ret(l, "ProjectExists", None)
    ELSE Ret([projects |-> insert(l.projects, name, DefaultProject),
              active_project |-> Some(name)],
             "Ok", None)

\* Variant of handle_delete that leaves active_project as it was.
handle_delete_keeps_active(l, name) ==
    IF ~contains_key(l.projects, name) THEN Ret(l, "UnknownProject", None)
    ELSE Ret([l EXCEPT !.projects = remove(l.projects, name)], "Ok", None)

\* handle_delete
handle_delete(l, name) ==
    IF ~contains_key(l.projects, name) THEN Ret(l, "UnknownProject", None)
    ELSE Ret([projects |-> remove(l.projects, name),
              active_project |->
                  IF l.active_project = Some(name) THEN None ELSE l.active_project],
             "Ok", None)

\* Variant of handle_hat that creates the project it does not find.
handle_hat_creates(l, name) ==
    IF contains_key(l.projects, name)
    THEN Ret([l EXCEPT !.active_project = Some(name)], "Ok", None)
    ELSE Ret([projects |-> insert(l.projects, name, DefaultProject),
              active_project |-> Some(name)],
             "Ok", None)

\* Variant of handle_hat without the contains_key check.
handle_hat_selects_unknown(l, name) ==
    Ret([l EXCEPT !.active_project = Some(name)], "Ok", None)

\* Variant of handle_hat that stops the timer of the project selected
\* before.
handle_hat_stops_previous(l, name) ==
    IF contains_key(l.projects, name)
    THEN Ret([projects |->
                  [n \in DOMAIN l.projects |->
                       IF l.active_project = Some(n) /\ n # name
                       THEN clear_start_epoch(l.projects[n])
                       ELSE l.projects[n]],
              active_project |-> Some(name)],
             "Ok", None)
    ELSE Ret(l, "UnknownProject", None)

\* handle_hat
handle_hat(l, name) ==
    IF contains_key(l.projects, name)
    THEN Ret([l EXCEPT !.active_project = Some(name)], "Ok", None)
    ELSE Ret(l, "UnknownProject", None)

\* ------------------------------------------------------------ the file

\* serde's form of a Duration: whole seconds and the nanoseconds left.
duration_to_json(d) == [secs |-> d \div 1000000000, nanos |-> d % 1000000000]

duration_from_json(j) == j.secs * 1000000000 + j.nanos

option_duration_to_json(o) == IF o = None THEN None ELSE Some(duration_to_json(o[1]))

option_duration_from_json(j) == IF j = None THEN None ELSE Some(duration_from_json(j[1]))

logged_time_to_json(t) ==
    [start_epoch |-> duration_to_json(t.start_epoch),
     duration |-> duration_to_json(t.duration),
     description |-> t.description]

logged_time_from_json(j) ==
    [start_epoch |-> duration_from_json(j.start_epoch),
     duration |-> duration_from_json(j.duration),
     description |-> j.description]

project_to_json(project) ==
    [start_epoch |-> option_duration_to_json(project.start_epoch),
     logged_times |-> [i \in 1..Len(project.logged_times) |->
                          logged_time_to_json(project.logged_times[i])]]

project_from_json(j) ==
    [start_epoch |-> option_duration_from_json(j.start_epoch),
     logged_times |-> [i \in 1..Len(j.logged_times) |->
                          logged_time_from_json(j.logged_times[i])]]

\* serde_json::to_string_pretty(&list): the document written.  The members of
\* the "projects" object are a set of <<key, value>>: a HashMap has no order.
to_string_pretty(l) ==
    [projects |-> {<<n, project_to_json(l.projects[n])>> : n \in DOMAIN l.projects},
     active_project |-> l.active_project]

\* serde_json::from_str(&text)
from_str(text) ==
    [projects |-> [n \in {m[1] : m \in text.projects} |->
                      project_from_json((CHOOSE m \in text.projects : m[1] = n)[2])],
     active_project |-> text.active_project]

\* fs::read_to_string(path).map(from_str).unwrap_or_default(): the default
\* store when there is no file.
read_store(f) == IF f = None THEN DefaultList ELSE from_str(f[1])

\* ------------------------------------------------------------- the program

VARIABLES
    file,   \* the contents of ~/.timelogger.json: None when absent
    list,   \* main's `list`, the store in memory (the default store outside an invocation)
    pc,     \* where main is: "idle" (not running), "loaded", "done" (the handler returned)
    last,   \* the last command dispatched: its arguments, clock reading, result
            \* and the totals it printed
    procs   \* two more processes of the program on the same file, for each its
            \* pc, list and last, and the number of times it was started

vars == <<file, list, pc, last, procs>>

\* The files the first invocation can find: none, or one whose active
\* project is not among its projects (written outside the program).
InitialFiles ==
    {None,
     Some(to_string_pretty([projects |-> [n \in {} |-> DefaultProject],
                            active_project |-> Some("p")]))}

NoCommand ==
    [op |-> "none", name |-> "", text |-> <<>>, t |-> None, res |-> "Ok", out |-> None]

Procs == {1, 2}

NotStartedProcs ==
    [i \in Procs |-> [pc |-> "idle", list |-> DefaultList, last |-> NoCommand, runs |-> 0]]

Init ==
    /\ file \in InitialFiles
    /\ list = DefaultList
    /\ pc = "idle"
    /\ last = NoCommand
    /\ procs = NotStartedProcs

\* main, lines 129-131
Load ==
    /\ pc = "idle"
    /\ list' = read_store(file)
    /\ pc' = "loaded"
    /\ UNCHANGED <<file, last, procs>>

\* main's match on args.command: the handler r ran.  A handler that panics
\* ends the process before the write.
Dispatch(op, name, text, r) ==
    /\ pc = "loaded"
    /\ last' = [op |-> op, name |-> name, text |-> text, t |-> r.t, res |-> r.res,
                out |-> printed(op, list)]
    /\ IF r.res = "Panic"
       THEN pc' = "idle" /\ list' = DefaultList
       ELSE pc' = "done" /\ list' = r.list
    /\ UNCHANGED <<file, procs>>

List == Dispatch("list", "", <<>>, handle_list(list))

On == \E now \in Clock : Dispatch("on", "", <<>>, handle_on(list, now))

Off ==
    \E description \in Descriptions, now \in Clock :
        LET r == handle_off(list, description, now)
        IN /\ r.res = "Ok" =>
                  total_entries(list.projects, DOMAIN list.projects) < MaxEntries
           /\ Dispatch("off", "", description, r)

Edit == \E duration \in DurationTexts : Dispatch("edit", "", duration, handle_edit(list, duration))

Undo == \E now \in Clock : Dispatch("undo", "", <<>>, handle_undo(list, now))

Time == Dispatch("time", "", <<>>, handle_time(list))

New == \E name \in Names : Dispatch("new", name, <<>>, handle_new(list, name))

Delete == \E name \in Names : Dispatch("delete", name, <<>>, handle_delete(list, name))

Hat == \E name \in Names : Dispatch("hat", name, <<>>, handle_hat(list, name))

\* Variant of fs_write that keeps the projects of the file that the store
\* written does not hold.
fs_write_merges(f, l) ==
    LET old == read_store(f).projects
        names == DOMAIN old \cup DOMAIN l.projects
    IN Some(to_string_pretty(
           [l EXCEPT !.projects =
                [n \in names |-> IF n \in DOMAIN l.projects THEN l.projects[n] ELSE old[n]]]))

\* fs::write(path, to_string_pretty(&list)): the contents of the file after
\* the store l is written over the contents f.
fs_write(f, l) == Some(to_string_pretty(l))

\* main, lines 155-159; the process then exits.
Save ==
    /\ pc = "done"
    /\ file' = fs_write(file, list)
    /\ list' = DefaultList
    /\ pc' = "idle"
    /\ UNCHANGED <<last, procs>>

Next ==
    \/ Load
    \/ List
    \/ On
    \/ Off
    \/ Edit
    \/ Undo
    \/ Time
    \/ New
    \/ Delete
    \/ Hat
    \/ Save

Spec == Init /\ [][Next]_vars

\* The first invocation finds no file: main starts from HatList::default().
InitEmpty ==
    /\ file = None
    /\ list = DefaultList
    /\ pc = "idle"
    /\ last = NoCommand
    /\ procs = NotStartedProcs

SpecEmpty == InitEmpty /\ [][Next]_vars

\* ------------------------------------------- processes running concurrently

\* main, lines 129-131, in process i.
CLoad(i) ==
    /\ procs[i].pc = "idle"
    /\ procs[i].runs < MaxRuns
    /\ procs' = [procs EXCEPT ![i].pc = "loaded",
                              ![i].list = read_store(file),
                              ![i].runs = @ + 1]
    /\ UNCHANGED <<file, list, pc, last>>

\* main's match on args.command in process i.
CDispatch(i, op, name, text, r) ==
    /\ procs[i].pc = "loaded"
    /\ procs' = [procs EXCEPT
                    ![i].last = [op |-> op, name |-> name, text |-> text, t |-> r.t,
                                 res |-> r.res, out |-> printed(op, procs[i].list)],
                    ![i].pc = IF r.res = "Panic" THEN "idle" ELSE "done",
                    ![i].list = IF r.res = "Panic" THEN DefaultList ELSE r.list]
    /\ UNCHANGED <<file, list, pc, last>>

CRun(i) ==
    LET l == procs[i].list
    IN \/ CDispatch(i, "list", "", <<>>, handle_list(l))
       \/ \E now \in Clock : CDispatch(i, "on", "", <<>>, handle_on(l, now))
       \/ \E description \in Descriptions, now \in Clock :
              LET r == handle_off(l, description, now)
              IN /\ r.res = "Ok" => total_entries(l.projects, DOMAIN l.projects) < MaxEntries
                 /\ CDispatch(i, "off", "", description, r)
       \/ \E duration \in DurationTexts :
              CDispatch(i, "edit", "", duration, handle_edit(l, duration))
       \/ \E now \in Clock : CDispatch(i, "undo", "", <<>>, handle_undo(l, now))
       \/ CDispatch(i, "time", "", <<>>, handle_time(l))
       \/ \E name \in Names : CDispatch(i, "new", name, <<>>, handle_new(l, name))
       \/ \E name \in Names : CDispatch(i, "delete", name, <<>>, handle_delete(l, name))
       \/ \E name \in Names : CDispatch(i, "hat", name, <<>>, handle_hat(l, name))

\* main, lines 155-159, in process i; the process then exits.
CSave(i) ==
    /\ procs[i].pc = "done"
    /\ file' = fs_write(file, procs[i].list)
    /\ procs' = [procs EXCEPT ![i].pc = "idle", ![i].list = DefaultList]
    /\ UNCHANGED <<list, pc, last>>

NextConc == \E i \in Procs : CLoad(i) \/ CRun(i) \/ CSave(i)

SpecConc == Init /\ [][NextConc]_vars

\* ------------------------------------------------------------------ claims

\* While pc = "done" the file still holds what the invocation loaded: the
\* store the handler received.  `list` is the store the handler left.
Before == read_store(file)

\* The store l has an active project that exists.
HasActive(l) == l.active_project # None /\ contains_key(l.projects, l.active_project[1])

\* The active project of a store that has one.
ActiveOf(l) == l.projects[l.active_project[1]]

\* The variants of Error.
ErrorNames ==
    {"ParseDuration", "SystemTime", "UnknownProject", "NoActiveProject",
     "UnknownActiveProject", "AlreadyStarted", "NotStarted", "NoTimeLogged",
     "NoDescription", "ProjectExists"}

\* C1: whenever a command returns an error of the taxonomy, the store it
\* leaves equals the store it received.
C1_ErrorLeavesStoreUnchanged ==
    (pc = "done" /\ last.res \in ErrorNames) => list = Before

\* C2: start-timer at t1 directly followed by stop-timer at t2 with a
\* description D, trim(D) non-empty: both succeed, and stop-timer leaves the
\* timer stopped and the entries it found plus one entry with started_at t1,
\* duration t2 - t1 >= 0 and description trim(D).
C2_StartThenStopLogsOneEntry ==
    [][(/\ pc = "loaded"
        /\ last.op = "on" /\ last.res = "Ok"
        /\ last'.op = "off" /\ last'.t # None
        /\ trim(last'.text) # <<>>)
       => (/\ last'.res = "Ok"
           /\ last'.t[1] - last.t[1] >= 0
           /\ list' = [list EXCEPT !.projects[list.active_project[1]] =
                  [start_epoch |-> None,
                   logged_times |->
                       Append(ActiveOf(list).logged_times,
                              [start_epoch |-> last.t[1],
                               duration |-> last'.t[1] - last.t[1],
                               description |-> trim(last'.text)])]])]_vars

\* C3: start-timer on an active project whose timer is running returns
\* AlreadyStarted and leaves the store, and so the start time, as it was.
C3_StartWhileRunningIsRefused ==
    (/\ pc = "done" /\ last.op = "on"
     /\ HasActive(Before) /\ ActiveOf(Before).start_epoch # None)
    => (/\ last.res = "AlreadyStarted"
        /\ list = Before
        /\ ActiveOf(list).start_epoch = ActiveOf(Before).start_epoch)

\* C3 witness: a start-timer was refused and the timer still shows its start.
C3_Witness ==
    /\ pc = "done" /\ last.op = "on" /\ last.res = "AlreadyStarted"
    /\ HasActive(list) /\ ActiveOf(list).start_epoch = Some(1)

\* C4: undo-last on an active project whose timer is running succeeds (the
\* system clock being readable), stops the timer and leaves the entries and
\* the rest of the store as they were; a stop-timer with a description
\* directly after it returns NotStarted and logs nothing.
C4_UndoCancelsRunningTimer ==
    /\ []((/\ last.op = "undo" /\ last.res # "SystemTime"
           /\ pc = "done" \/ last.res = "Panic"
           /\ HasActive(Before) /\ ActiveOf(Before).start_epoch # None)
          => (/\ last.res = "Ok"
              /\ list = [Before EXCEPT
                            !.projects[Before.active_project[1]].start_epoch = None]))
    /\ [][(/\ pc = "loaded"
           /\ last.op = "undo" /\ last.res = "Ok" /\ last.t # None
           /\ last'.op = "off" /\ trim(last'.text) # <<>>)
          => (last'.res = "NotStarted" /\ list' = list)]_vars

\* C5: undo-last on an active project with a stopped timer and n entries:
\* for n >= 1 it succeeds and leaves the first n-1 entries, the timer stopped
\* and the rest of the store as it was; for n = 0 it returns NoTimeLogged.
\* Repeated with no command in between, it succeeds while entries are left
\* and returns NoTimeLogged from then on.
C5_UndoPopsLastEntry ==
    /\ []((/\ pc = "done" /\ last.op = "undo"
           /\ HasActive(Before) /\ ActiveOf(Before).start_epoch = None)
          => LET n == Len(ActiveOf(Before).logged_times)
             IN IF n >= 1
                THEN /\ last.res = "Ok"
                     /\ ActiveOf(list).start_epoch = None
                     /\ Len(ActiveOf(list).logged_times) = n - 1
                     /\ list = [Before EXCEPT
                                   !.projects[Before.active_project[1]].logged_times =
                                       [i \in 1..(n - 1) |-> @[i]]]
                ELSE last.res = "NoTimeLogged" /\ list = Before)
    /\ [][(/\ pc = "loaded" /\ last.op = "undo" /\ last'.op = "undo"
           /\ HasActive(list))
          => (/\ last.res = "Ok" =>
                    (last'.res = "Ok" <=> ActiveOf(list).logged_times # <<>>)
              /\ last.res = "NoTimeLogged" =>
                    (last'.res = "NoTimeLogged" /\ list' = list))]_vars

\* C5 witness: an undo-last removed the second of two entries of a stopped
\* project.
C5_Witness ==
    /\ pc = "done" /\ last.op = "undo" /\ last.res = "Ok"
    /\ HasActive(Before) /\ ActiveOf(Before).start_epoch = None
    /\ Len(ActiveOf(Before).logged_times) = 2
    /\ ActiveOf(Before).logged_times[1] # ActiveOf(Before).logged_times[2]
    /\ Len(ActiveOf(list).logged_times) = 1

\* The duration texts of the model that are malformed: a number with no
\* unit, and the empty text.
MalformedTexts == {<<"1">>, <<>>}

\* C6: edit-last-duration with a malformed duration text, on an active
\* project with at least one entry, returns ParseDuration and leaves the
\* store, and so the last entry's duration, as it was.
C6_MalformedEditChangesNothing ==
    (/\ pc = "done" /\ last.op = "edit" /\ last.text \in MalformedTexts
     /\ HasActive(Before) /\ ActiveOf(Before).logged_times # <<>>)
    => (/\ last.res = "ParseDuration"
        /\ list = Before)

\* C6 witness: a malformed edit was refused on a project whose last entry has
\* a duration other than zero.
C6_Witness ==
    /\ pc = "done" /\ last.op = "edit" /\ last.res = "ParseDuration"
    /\ HasActive(list)
    /\ ActiveOf(list).logged_times # <<>>
    /\ ActiveOf(list).logged_times[Len(ActiveOf(list).logged_times)].duration = 1

\* C7: a successful edit-last-duration changes nothing but the duration of
\* the last entry of the active project.
C7_EditChangesOnlyLastDuration ==
    (pc = "done" /\ last.op = "edit" /\ last.res = "Ok")
    => (/\ HasActive(Before)
        /\ ActiveOf(Before).logged_times # <<>>
        /\ LET n == Len(ActiveOf(Before).logged_times)
           IN list = [Before EXCEPT
                         !.projects[Before.active_project[1]].logged_times[n].duration =
                             ActiveOf(list).logged_times[n].duration])

\* C7 witness: an edit changed the last of two entries while the timer was
\* running and another project existed.
C7_Witness ==
    /\ pc = "done" /\ last.op = "edit" /\ last.res = "Ok"
    /\ Cardinality(DOMAIN list.projects) = 2
    /\ ActiveOf(list).start_epoch # None
    /\ Len(ActiveOf(list).logged_times) = 2
    /\ ActiveOf(list).logged_times[2].duration # ActiveOf(Before).logged_times[2].duration

\* C8: delete-project(name) on an existing name removes that project and no
\* other, whatever its timer and entries; the active project becomes None if
\* it was name and is unchanged otherwise.  On a missing name it returns
\* UnknownProject.
C8_DeleteRemovesExactlyThatProject ==
    (pc = "done" /\ last.op = "delete")
    => IF last.name \in DOMAIN Before.projects
       THEN /\ last.res = "Ok"
            /\ DOMAIN list.projects = DOMAIN Before.projects \ {last.name}
            /\ \A n \in DOMAIN list.projects : list.projects[n] = Before.projects[n]
            /\ list.active_project =
                   IF Before.active_project = Some(last.name)
                   THEN None
                   ELSE Before.active_project
       ELSE last.res = "UnknownProject" /\ list = Before

\* C8 witness: the active project was deleted while its timer was running
\* and it had an entry, and another project stayed.
C8_Witness ==
    /\ pc = "done" /\ last.op = "delete" /\ last.res = "Ok"
    /\ Before.active_project = Some(last.name)
    /\ Before.projects[last.name].start_epoch # None
    /\ Before.projects[last.name].logged_times # <<>>
    /\ DOMAIN list.projects # {}
    /\ list.active_project = None

\* C9: create-project(name) returns ProjectExists and changes nothing when
\* name is a key of projects; otherwise it adds name with no entries and a
\* stopped timer, leaves the other projects as they were and makes name the
\* active project.
\* Directly after a delete-project(name) it succeeds and the project is new.
C9_CreateInsertsFreshProject ==
    /\ []((pc = "done" /\ last.op = "new")
          => IF last.name \in DOMAIN Before.projects
             THEN last.res = "ProjectExists" /\ list = Before
             ELSE /\ last.res = "Ok"
                  /\ DOMAIN list.projects = DOMAIN Before.projects \cup {last.name}
                  /\ list.projects[last.name] =
                         [start_epoch |-> None, logged_times |-> <<>>]
                  /\ \A n \in DOMAIN Before.projects :
                         list.projects[n] = Before.projects[n]
                  /\ list.active_project = Some(last.name))
    /\ [][(/\ pc = "loaded"
           /\ last.op = "delete" /\ last.res = "Ok"
           /\ last'.op = "new" /\ last'.name = last.name)
          => (/\ last'.res = "Ok"
              /\ list'.projects[last.name] =
                     [start_epoch |-> None, logged_times |-> <<>>])]_vars

\* C9 witness: a create-project was refused for a project that has an entry
\* and a running timer and is not the active one.
C9_Witness ==
    /\ pc = "done" /\ last.op = "new" /\ last.res = "ProjectExists"
    /\ list.projects[last.name].logged_times # <<>>
    /\ list.projects[last.name].start_epoch # None
    /\ list.active_project # None
    /\ list.active_project # Some(last.name)

\* C10: select-project(name) on an existing name makes name the active
\* project and changes nothing else; on a missing name it returns
\* UnknownProject and changes nothing.  Directly after a successful
\* create-project(name) it leaves the whole store as it was.
C10_SelectSetsOnlyActiveProject ==
    /\ []((pc = "done" /\ last.op = "hat")
          => IF last.name \in DOMAIN Before.projects
             THEN /\ last.res = "Ok"
                  /\ list = [Before EXCEPT !.active_project = Some(last.name)]
             ELSE last.res = "UnknownProject" /\ list = Before)
    /\ [][(/\ pc = "loaded"
           /\ last.op = "new" /\ last.res = "Ok"
           /\ last'.op = "hat" /\ last'.name = last.name)
          => (last'.res = "Ok" /\ list' = list)]_vars

\* C10 witness: a select-project changed the active project from one
\* existing project to another.
C10_Witness ==
    /\ pc = "done" /\ last.op = "hat" /\ last.res = "Ok"
    /\ HasActive(Before)
    /\ Before.active_project # list.active_project
    /\ ActiveOf(Before).start_epoch # None


\* C11: the set of project names changes only by a successful create-project,
\* which adds the given name, and a successful delete-project, which removes
\* it; every other command, and every failing one, leaves the set as it was.
\* Selecting a name that does not exist returns UnknownProject and logging
\* against an active name that does not exist returns UnknownActiveProject.
C11_OnlyCreateAndDeleteChangeNames ==
    pc = "done"
    => /\ DOMAIN list.projects =
              IF last.op = "new" /\ last.res = "Ok"
              THEN DOMAIN Before.projects \cup {last.name}
              ELSE IF last.op = "delete" /\ last.res = "Ok"
              THEN DOMAIN Before.projects \ {last.name}
              ELSE DOMAIN Before.projects
       /\ (last.op = "new" /\ last.res = "Ok") => last.name \notin DOMAIN Before.projects
       /\ (last.op = "delete" /\ last.res = "Ok") => last.name \in DOMAIN Before.projects
       /\ (last.op = "hat" /\ last.name \notin DOMAIN Before.projects)
              => last.res = "UnknownProject"
       /\ (/\ last.op \in {"on", "off", "edit", "undo", "time"}
           /\ Before.active_project # None /\ ~HasActive(Before))
              => last.res = "UnknownActiveProject"

\* C11 witness: a start-timer against an active name that does not exist was
\* refused and no project was created.
C11_Witness ==
    /\ pc = "done" /\ last.op = "on" /\ last.res = "UnknownActiveProject"
    /\ list.active_project = Some("p")
    /\ DOMAIN list.projects = {}


RECURSIVE SumOfDurations(_, _)
\* The sum of the durations of the first k entries.
SumOfDurations(entries, k) ==
    IF k = 0 THEN 0 ELSE SumOfDurations(entries, k - 1) + entries[k].duration

\* C12: for every project with at least one entry, the total list-projects
\* prints equals the total show-log prints for it when it is the active
\* project: both are the sum of the durations of its entries, whether or not
\* its timer is running.  A show-log directly after a list-projects prints
\* the total that list-projects printed for the active project.
C12_ListAndTimeTotalsAgree ==
    /\ []((pc = "done" /\ last.op = "list")
          => \A n \in DOMAIN list.projects :
                 list.projects[n].logged_times # <<>>
                 => /\ last.out[1][n] =
                           SumOfDurations(list.projects[n].logged_times,
                                          Len(list.projects[n].logged_times))
                    /\ last.out[1][n] =
                           printed("time", [list EXCEPT !.active_project = Some(n)])[1])
    /\ []((/\ pc = "done" /\ last.op = "time" /\ last.res = "Ok"
           /\ ActiveOf(list).logged_times # <<>>)
          => last.out = Some(SumOfDurations(ActiveOf(list).logged_times,
                                            Len(ActiveOf(list).logged_times))))
    /\ [][(/\ pc = "loaded" /\ last.op = "list"
           /\ last'.op = "time" /\ last'.res = "Ok"
           /\ ActiveOf(list).logged_times # <<>>)
          => last'.out[1] = last.out[1][list.active_project[1]]]_vars

\* C12 witness: list-projects printed the total of two entries of a project
\* whose timer was running.
C12_Witness ==
    /\ pc = "done" /\ last.op = "list"
    /\ \E n \in DOMAIN list.projects :
           /\ Len(list.projects[n].logged_times) = 2
           /\ list.projects[n].logged_times[1].duration > 0
           /\ list.projects[n].logged_times[2].duration > 0
           /\ list.projects[n].start_epoch # None
           /\ last.out[1][n] = list.projects[n].logged_times[1].duration
                                   + list.projects[n].logged_times[2].duration


\* C13: every invocation ends by writing its in-memory store to the file,
\* whether its command returned success or an error: the command run on the
\* loaded store always reaches the save, the save writes the store the
\* command left, and the next invocation loads exactly that store.
C13_EveryInvocationSaves ==
    /\ [][pc = "loaded" => pc' = "done"]_vars
    /\ [][pc = "done" => (pc' = "idle" /\ read_store(file') = list)]_vars
    /\ [](pc = "loaded" => list = read_store(file))


\* A description that is non-empty and has no leading or trailing whitespace.
Trimmed(d) == d # <<>> /\ ~is_whitespace(d[1]) /\ ~is_whitespace(d[Len(d)])

AllTrimmed(l) ==
    \A n \in DOMAIN l.projects :
        \A i \in 1..Len(l.projects[n].logged_times) :
            Trimmed(l.projects[n].logged_times[i].description)

\* A description with no character other than whitespace.
Blank(d) == \A i \in 1..Len(d) : is_whitespace(d[i])

\* C14: starting from the empty store, every entry of every project, in
\* memory and in the file, has a non-empty description with no leading or
\* trailing whitespace.  stop-timer with an empty or whitespace-only
\* description logs nothing and leaves the store, a running timer included,
\* as it was, and on a selected existing project it returns NoDescription.
C14_DescriptionsAreTrimmedAndNonEmpty ==
    /\ AllTrimmed(list)
    /\ AllTrimmed(Before)
    /\ (pc = "done" /\ last.op = "off" /\ Blank(last.text))
           => /\ list = Before
              /\ last.res # "Ok"
              /\ HasActive(Before) => last.res = "NoDescription"

\* C14 witness: stop-timer with a whitespace-only description was refused on
\* a project whose timer is running and that holds an entry logged from a
\* description given with surrounding spaces.
C14_Witness ==
    /\ pc = "done" /\ last.op = "off" /\ last.text = <<" ">>
    /\ last.res = "NoDescription"
    /\ ActiveOf(list).start_epoch # None
    /\ Len(ActiveOf(list).logged_times) = 1
    /\ ActiveOf(list).logged_times[1].description = <<"a">>


\* C15: processes running concurrently on the same file are not
\* synchronized.  A process loads while another is between its load and its
\* save, and whatever the file holds when a process saves, the file then
\* holds exactly that process's store: a full rewrite, in which what another
\* process saved meanwhile is lost.
C15_ConcurrentSavesOverwrite ==
    /\ [](\A i \in Procs :
              (procs[i].pc = "idle" /\ procs[i].runs < MaxRuns) => ENABLED CLoad(i))
    /\ [][\A i \in Procs :
              (procs[i].pc = "done" /\ procs'[i].pc = "idle")
              => read_store(file') = procs[i].list]_vars

\* C15 witness: both processes loaded the empty store before either saved,
\* one created p and saved, the other created q and saved last: the file
\* holds q only.
C15_Witness ==
    /\ \A i \in Procs : procs[i].pc = "idle" /\ procs[i].runs = 1
    /\ procs[1].last.op = "new" /\ procs[1].last.name = "p" /\ procs[1].last.res = "Ok"
    /\ procs[2].last.op = "new" /\ procs[2].last.name = "q" /\ procs[2].last.res = "Ok"
    /\ DOMAIN Before.projects = {"q"}


\* C16: a project's entries change only at their end.  For every command
\* and every project that exists before and after it, the entries after it
\* are the entries before it, or those plus one appended entry (off), or
\* those without their last element (undo), or those with only the last
\* element's duration replaced (edit).
C16_EntriesChangeOnlyAtTheEnd ==
    pc = "done"
    => \A n \in DOMAIN Before.projects \cap DOMAIN list.projects :
           LET old == Before.projects[n].logged_times
               new == list.projects[n].logged_times
           IN \/ new = old
              \/ /\ last.op = "off"
                 /\ Len(new) = Len(old) + 1
                 /\ SubSeq(new, 1, Len(old)) = old
              \/ /\ last.op = "undo"
                 /\ old # <<>>
                 /\ new = SubSeq(old, 1, Len(old) - 1)
              \/ /\ last.op = "edit"
                 /\ old # <<>>
                 /\ Len(new) = Len(old)
                 /\ new = [old EXCEPT ![Len(old)].duration = new[Len(old)].duration]

\* C16 witness: stop-timer appended an entry to a project that held a
\* different entry.
C16_Witness ==
    /\ pc = "done" /\ last.op = "off" /\ last.res = "Ok"
    /\ Len(ActiveOf(Before).logged_times) = 1
    /\ Len(ActiveOf(list).logged_times) = 2
    /\ ActiveOf(list).logged_times[2] # ActiveOf(list).logged_times[1]


\* C17: stop-timer reports the first failing check in the order
\* NoActiveProject, UnknownActiveProject, NoDescription, NotStarted: with a
\* whitespace-only description on a stopped timer it returns NoDescription.
\* edit-last-duration on a project with no entries returns NoTimeLogged
\* whatever the duration text, malformed or not.
C17_ErrorsAreReportedInOrder ==
    /\ (pc = "done" /\ last.op = "off")
           => last.res =
                  IF Before.active_project = None THEN "NoActiveProject"
                  ELSE IF ~HasActive(Before) THEN "UnknownActiveProject"
                  ELSE IF Blank(last.text) THEN "NoDescription"
                  ELSE IF ActiveOf(Before).start_epoch = None THEN "NotStarted"
                  ELSE IF last.t = None THEN "SystemTime"
                  ELSE "Ok"
    /\ (/\ pc = "done" /\ last.op = "edit"
        /\ HasActive(Before) /\ ActiveOf(Before).logged_times = <<>>)
           => last.res = "NoTimeLogged"

\* C17 witness: stop-timer with a whitespace-only description on a stopped
\* timer returned NoDescription.
C17_Witness ==
    /\ pc = "done" /\ last.op = "off" /\ last.text = <<" ">>
    /\ HasActive(Before) /\ ActiveOf(Before).start_epoch = None
    /\ last.res = "NoDescription"


\* active_project is None or the name of a project of the store.
ActiveIsKnown(l) == l.active_project = None \/ HasActive(l)

\* C18: starting from the empty store, in every state a single process
\* reaches, in memory and in the file, active_project is None or the name of
\* a project in projects, and no command returns UnknownActiveProject.
C18_ActiveProjectIsNoneOrExists ==
    /\ ActiveIsKnown(list)
    /\ ActiveIsKnown(Before)
    /\ last.res # "UnknownActiveProject"

\* C18 witness: the active project was deleted, which left no project
\* selected.
C18_Witness ==
    /\ pc = "done" /\ last.op = "delete" /\ last.res = "Ok"
    /\ Before.active_project = Some(last.name)
    /\ list.active_project = None
    /\ DOMAIN list.projects # {}


TimerCommands == {"on", "off", "edit", "undo"}

\* The store l without the projects that are not its active project.
OnlyActive(l) ==
    [l EXCEPT !.projects =
         [n \in {m \in DOMAIN l.projects : l.active_project = Some(m)} |-> l.projects[n]]]

\* The last command run again on the store it loaded, without the projects
\* that were not active (the clock reading of a command that failed before
\* or at the reading is None).
AloneAgain ==
    CASE last.op = "on" -> handle_on(OnlyActive(Before), last.t)
      [] last.op = "off" -> handle_off(OnlyActive(Before), last.text, last.t)
      [] last.op = "edit" -> handle_edit(OnlyActive(Before), last.text)
      [] last.op = "undo" -> handle_undo(OnlyActive(Before), last.t)

\* C19: timers are per project and independent of the selection.  on, off,
\* edit and undo leave the selection and every project other than the active
\* one as they were, and their result and the active project's new record
\* are those of the same command on a store holding the active project
\* alone.  hat and new leave every existing project's start_epoch as it
\* was.  The entry a successful off appends carries the start_epoch the
\* active project had.
C19_TimersArePerProject ==
    /\ (pc = "done" /\ last.op \in TimerCommands)
           => /\ list.active_project = Before.active_project
              /\ DOMAIN list.projects = DOMAIN Before.projects
              /\ \A n \in DOMAIN Before.projects :
                     Before.active_project # Some(n)
                     => list.projects[n] = Before.projects[n]
              /\ last.res = AloneAgain.res
              /\ HasActive(Before) => ActiveOf(list) = ActiveOf(AloneAgain.list)
    /\ (pc = "done" /\ last.op \in {"hat", "new"})
           => \A n \in DOMAIN Before.projects :
                  /\ n \in DOMAIN list.projects
                  /\ list.projects[n].start_epoch = Before.projects[n].start_epoch
    /\ (pc = "done" /\ last.op = "off" /\ last.res = "Ok")
           => LET entries == ActiveOf(list).logged_times
              IN Some(entries[Len(entries)].start_epoch) = ActiveOf(Before).start_epoch

\* C19 witness: stop-timer logged an entry started at 1 for the active
\* project while another project, started at 0, is still running.
C19_Witness ==
    /\ pc = "done" /\ last.op = "off" /\ last.res = "Ok"
    /\ ActiveOf(Before).start_epoch = Some(1)
    /\ ActiveOf(list).logged_times[Len(ActiveOf(list).logged_times)].start_epoch = 1
    /\ \E n \in DOMAIN list.projects :
           /\ list.active_project # Some(n)
           /\ Before.projects[n].start_epoch = Some(0)
           /\ list.projects[n].start_epoch = Some(0)


\* C20: after a successful edit-last-duration the last entry's duration, in
\* nanoseconds, is the number of nanoseconds the duration parser returned
\* for the text, negative values included.
C20_EditStoresTheParsedNanoseconds ==
    (pc = "done" /\ last.op = "edit" /\ last.res = "Ok")
    => ActiveOf(list).logged_times[Len(ActiveOf(list).logged_times)].duration =
           parse_duration(replace_spaces(last.text))[1]

====
